---- MODULE Spec2Model ----
(***************************************************************************)
(* Model of crystcif-parse/lib/cryst.js: the Atoms structure (constructor, *)
(* set_array, accessors) and the CIF-to-Atoms conversion Atoms.readCif     *)
(* with its symmetry expansion.                                            *)
(*                                                                         *)
(* Numbers.  Floating point values are modelled by exact integers on a     *)
(* grid: a fractional coordinate f is stored as the integer f*Grid, a      *)
(* Cartesian coordinate c as c*Grid, cell entries and the element numbers  *)
(* as themselves.  The tolerance symtol is stored as symtol*Grid.  A       *)
(* length r is carried as its square, so that "r < symtol" is decided      *)
(* exactly.  Rounding errors of the floating point arithmetic are not      *)
(* modelled.                                                               *)
(*                                                                         *)
(* JavaScript null/undefined for an array-valued slot is the empty tuple   *)
(* Null; dynamically typed arguments (the cell argument, the elements) are *)
(* tagged records.                                                         *)
(***************************************************************************)
EXTENDS Integers, Sequences, FiniteSets, TLC

(* ------------------------------ bounds -------------------------------- *)

\* Resolution of the grid: the number 1 of a fractional coordinate.
Grid == 4

\* Largest number of data blocks in a document.
MaxBlocks == 2

\* Largest number of atom sites in a block.
MaxSites == 2

\* Largest number of symmetry operators listed after the first entry.
MaxOps == 2

\* Largest tolerance symtol*Grid drawn.
MaxTol == 2

\* Largest number of atoms passed to the Atoms constructor.
MaxAtoms == 2

\* Largest number of writes of a caller into the values accessors returned.
MaxMutations == 1

(* ------------------------- vectors and matrices ----------------------- *)

Null == <<>>

Dot(u, v) == u[1] * v[1] + u[2] * v[2] + u[3] * v[3]

\* mjs.multiply(M, v): matrix times column vector.
MatVec(M, v) == <<Dot(M[1], v), Dot(M[2], v), Dot(M[3], v)>>

\* mjs.multiply(v, M): row vector times matrix.
VecMat(v, M) ==
    << v[1] * M[1][1] + v[2] * M[2][1] + v[3] * M[3][1],
       v[1] * M[1][2] + v[2] * M[2][2] + v[3] * M[3][2],
       v[1] * M[1][3] + v[2] * M[2][3] + v[3] * M[3][3] >>

VecAdd(u, v) == <<u[1] + v[1], u[2] + v[2], u[3] + v[3]>>

VecSub(u, v) == <<u[1] - v[1], u[2] - v[2], u[3] - v[3]>>

NormSq(v) == Dot(v, v)

Det(M) ==
      M[1][1] * (M[2][2] * M[3][3] - M[2][3] * M[3][2])
    - M[1][2] * (M[2][1] * M[3][3] - M[2][3] * M[3][1])
    + M[1][3] * (M[2][1] * M[3][2] - M[2][2] * M[3][1])

\* Adjugate of M: inv(M) = Adj(M) / Det(M).
Adj(M) ==
    << << M[2][2] * M[3][3] - M[2][3] * M[3][2],
          M[1][3] * M[3][2] - M[1][2] * M[3][3],
          M[1][2] * M[2][3] - M[1][3] * M[2][2] >>,
       << M[2][3] * M[3][1] - M[2][1] * M[3][3],
          M[1][1] * M[3][3] - M[1][3] * M[3][1],
          M[1][3] * M[2][1] - M[1][1] * M[2][3] >>,
       << M[2][1] * M[3][2] - M[2][2] * M[3][1],
          M[1][2] * M[3][1] - M[1][1] * M[3][2],
          M[1][1] * M[2][2] - M[1][2] * M[2][1] >> >>

\* mjs.inv(M): the pair <<adjugate, determinant>>; mathjs throws on a
\* singular matrix, which the callers test with Det(M) = 0.
Inv(M) == <<Adj(M), Det(M)>>

\* Exact quotient of a vector by a non-zero integer.
VecDiv(v, d) == <<v[1] \div d, v[2] \div d, v[3] \div d>>

\* mjs.multiply(v, inv): row vector times an inverse <<adj, det>>.
VecInv(v, inv) == VecDiv(VecMat(v, inv[1]), inv[2])

\* Math.sqrt on the perfect squares the cell construction meets.
Sqrt(q) == CHOOSE r \in 0..(q + 1) : r * r <= q /\ (r + 1) * (r + 1) > q

(* --------------------------- utils.js ---------------------------------- *)

\* utils.mod1: every component reduced into [0,1).
mod1(v) == <<v[1] % Grid, v[2] % Grid, v[3] % Grid>>

Shifts == {<<dx, dy, dz>> : dx \in {-1, 0, 1}, dy \in {-1, 0, 1}, dz \in {-1, 0, 1}}

SetMin(S) == CHOOSE m \in S : \A x \in S : m <= x

\* utils.shortestPeriodicLength: the length of the shortest periodic image
\* of a fractional vector, here its square, with period the number 1 of the
\* coordinates.
shortestPeriodicLengthSqOn(fx, period) ==
    SetMin({NormSq(VecAdd(fx, <<d[1] * period, d[2] * period, d[3] * period>>)) :
            d \in Shifts})

shortestPeriodicLengthSq(fx) == shortestPeriodicLengthSqOn(fx, Grid)

\* "r < tol" for a length given by its square rsq >= 0.
LengthBelow(rsq, tol) == tol > 0 /\ rsq < tol * tol

\* utils.deepClone: a structurally equal value that shares nothing.
deepClone(x) == x

(* ------------------------- element table ------------------------------- *)

\* An element argument: a symbol (string) or an atomic number.
ElSym(s) == [isnum |-> FALSE, s |-> s, n |-> 0]

ElNum(n) == [isnum |-> TRUE, s |-> "", n |-> n]

\* JavaScript undefined passed as an element (an absent type symbol).
ElUndefined == ElSym("undefined")

PeriodicTable == { [symbol |-> "H", number |-> 1],
                   [symbol |-> "C", number |-> 6],
                   [symbol |-> "O", number |-> 8] }

NoElement == [symbol |-> "", number |-> 0]

\* mndtable.getElement: the entry of a symbol, or null.
getElement(s) ==
    IF \E e \in PeriodicTable : e.symbol = s
    THEN CHOOSE e \in PeriodicTable : e.symbol = s
    ELSE NoElement

\* mndtable.getAtomic: the entry of an atomic number, or null.
getAtomic(n) ==
    IF \E e \in PeriodicTable : e.number = n
    THEN CHOOSE e \in PeriodicTable : e.number = n
    ELSE NoElement

(* ------------------------- cellparToCell ------------------------------- *)

\* Math.cos and Math.sin of an angle in degrees after the rounding for
\* orthorhombic cells (cryst.js 83-89); the model draws right angles only.
Cosa(deg) == CASE deg = 90 -> 0

Sina(deg) == CASE deg = 90 -> 1

\* cellparToCell(cellpar) with the default ab_normal and a_direction, for
\* which the rotated X,Y,Z system is the identity.
cellparToCell(cellpar) ==
    LET l == cellpar[1]
        angs == cellpar[2]
        cosa == <<Cosa(angs[1]), Cosa(angs[2]), Cosa(angs[3])>>
        sina == <<Sina(angs[1]), Sina(angs[2]), Sina(angs[3])>>
        va == <<l[1], 0, 0>>
        vb == <<l[2] * cosa[3], l[2] * sina[3], 0>>
        vc0 == l[3] * cosa[2]
        vc1 == (l[3] * (cosa[1] - cosa[2] * cosa[3])) \div sina[3]
        vc2 == Sqrt(l[3] * l[3] - vc0 * vc0 - vc1 * vc1)
        XYZ == <<<<1, 0, 0>>, <<0, 1, 0>>, <<0, 0, 1>>>>
    IN  <<VecMat(va, XYZ), VecMat(vb, XYZ), VecMat(<<vc0, vc1, vc2>>, XYZ)>>

(* ------------------------------ Atoms ---------------------------------- *)

\* The dynamically typed cell argument and its entries: null, a number, or
\* an array (of entries for the argument, of numbers for an entry).
CNull == [t |-> "null", n |-> 0, a |-> <<>>]

CNum(x) == [t |-> "num", n |-> x, a |-> <<>>]

CArr(s) == [t |-> "arr", n |-> 0, a |-> s]

\* JavaScript truthiness of a cell argument or entry: !x is ~Truthy(x).
Truthy(x) == ~(x.t = "null" \/ (x.t = "num" /\ x.n = 0))

ArrayNames == {"symbols", "numbers", "positions", "labels"}

NoAtoms ==
    [ N |-> 0, keys |-> {},
      arrays |-> [symbols |-> <<>>, numbers |-> <<>>, positions |-> <<>>, labels |-> <<>>],
      cell |-> Null, inv_cell |-> Null, pbc |-> <<FALSE, FALSE, FALSE>> ]

Thrown(msg) == [ok |-> FALSE, err |-> msg, obj |-> NoAtoms]

\* ResolveElem with the tolerant flag ignored: an unknown symbol always
\* throws.
ResolveElemStrict(el, tolerant) ==
    LET a == IF el.isnum THEN getAtomic(el.n) ELSE getElement(el.s)
    IN  IF a = NoElement
        THEN [ok |-> FALSE, symbol |-> "", number |-> 0]
        ELSE [ok |-> TRUE, symbol |-> a.symbol, number |-> a.number]

\* Atoms, lines 135-158: the symbol and number of one element, or a throw.
ResolveElem(el, tolerant) ==
    LET is_num == el.isnum
        a == IF is_num THEN getAtomic(el.n) ELSE getElement(el.s)
    IN  IF a = NoElement
        THEN IF is_num \/ ~tolerant
             THEN [ok |-> FALSE, symbol |-> "", number |-> 0]
             ELSE [ok |-> TRUE, symbol |-> el.s, number |-> -1]
        ELSE [ok |-> TRUE, symbol |-> a.symbol, number |-> a.number]

\* RowPbc without line 189: the flag of a null entry stays true.
RowPbcKept(entry) == TRUE

\* Atoms, lines 167 and 187-189: the pbc flag of the axis of an entry.
RowPbc(entry) == Truthy(entry)

\* Atoms, lines 166-200: the stored cell and the pbc flags of a cell
\* argument, or a throw.
ResolveCell(cell) ==
    IF ~Truthy(cell)
    THEN [ok |-> TRUE, cell |-> Null, pbc |-> <<FALSE, FALSE, FALSE>>]
    ELSE IF cell.t = "num"
    THEN [ok |-> TRUE,
          cell |-> <<<<cell.n, 0, 0>>, <<0, cell.n, 0>>, <<0, 0, cell.n>>>>,
          pbc |-> <<TRUE, TRUE, TRUE>>]
    ELSE IF Len(cell.a) = 2
    THEN IF \A k \in 1..2 : cell.a[k].t = "arr" /\ Len(cell.a[k].a) = 3
         THEN [ok |-> TRUE,
               cell |-> cellparToCell(<<cell.a[1].a, cell.a[2].a>>),
               pbc |-> <<TRUE, TRUE, TRUE>>]
         ELSE [ok |-> FALSE, cell |-> Null, pbc |-> <<TRUE, TRUE, TRUE>>]
    ELSE IF Len(cell.a) # 3
    THEN [ok |-> FALSE, cell |-> Null, pbc |-> <<TRUE, TRUE, TRUE>>]
    ELSE [ok |-> \A i \in 1..3 :
                     Truthy(cell.a[i]) /\ cell.a[i].t = "arr" => Len(cell.a[i].a) = 3,
          cell |-> [i \in 1..3 |->
                     IF ~Truthy(cell.a[i]) THEN Null
                     ELSE IF cell.a[i].t = "num"
                     THEN [k \in 1..3 |-> IF k = i THEN cell.a[i].n ELSE 0]
                     ELSE cell.a[i].a],
          pbc |-> [i \in 1..3 |-> RowPbc(cell.a[i])]]

\* Array.prototype.includes(null) on the stored cell.
IncludesNull(c) == \E i \in 1..Len(c) : c[i] = Null

\* set_array without its shape check.
SetArrayAcceptsAny(obj, arr) == TRUE

\* Atoms.prototype.set_array, the shape check: the array is stored only
\* when its length is the number of atoms.
SetArrayAccepts(obj, arr) == Len(arr) = obj.N

\* Atoms.prototype.set_array on an object that accepts the array.
SetArrayStore(obj, name, arr) ==
    [obj EXCEPT !.arrays[name] = arr, !.keys = @ \cup {name}]

\* new Atoms(elems, positions, cell, info, scaled, tolerant): the built
\* object, or the throw that ends the construction.  info is stored as
\* given and read by nothing; it is left out.
AtomsNew(elems, positions, cell, scaled, tolerant) ==
    LET el == [i \in 1..Len(elems) |-> ResolveElem(elems[i], tolerant)]
        symbols == [i \in 1..Len(elems) |-> el[i].symbol]
        numbers == [i \in 1..Len(elems) |-> el[i].number]
        N == Len(symbols)
        c == ResolveCell(cell)
        full == Truthy(cell) /\ ~IncludesNull(c.cell)
        inv_cell == IF full THEN Inv(c.cell) ELSE Null
        check_pos == /\ Len(positions) = N
                     /\ \A i \in 1..Len(positions) : Len(positions[i]) = 3
        stored == IF scaled
                  THEN [i \in 1..Len(positions) |-> VecMat(positions[i], c.cell)]
                  ELSE positions
        this == [ N |-> N, keys |-> {"symbols", "numbers"},
                  arrays |-> [symbols |-> symbols, numbers |-> numbers,
                              positions |-> <<>>, labels |-> <<>>],
                  cell |-> c.cell, inv_cell |-> inv_cell, pbc |-> c.pbc ]
    IN  IF \E i \in 1..Len(elems) : ~el[i].ok THEN Thrown("Non-existing element")
        ELSE IF ~c.ok THEN Thrown("Invalid cell")
        ELSE IF full /\ Det(c.cell) = 0 THEN Thrown("Cannot calculate inverse")
        ELSE IF ~check_pos THEN Thrown("Invalid positions array")
        ELSE IF scaled /\ inv_cell = Null THEN Thrown("Impossible to use scaled coordinates")
        ELSE IF ~SetArrayAccepts(this, stored) THEN Thrown("Invalid array size")
        ELSE [ok |-> TRUE, err |-> "", obj |-> SetArrayStore(this, "positions", stored)]

\* Atoms.prototype.length
length(obj) == obj.N

\* Atoms.prototype.get_array: the stored array itself.
get_array(obj, name) == obj.arrays[name]

get_chemical_symbols(obj) == deepClone(get_array(obj, "symbols"))

get_atomic_numbers(obj) == deepClone(get_array(obj, "numbers"))

get_cell(obj) == deepClone(obj.cell)

get_inv_cell(obj) == deepClone(obj.inv_cell)

get_pbc(obj) == deepClone(obj.pbc)

get_positions(obj) == deepClone(get_array(obj, "positions"))

\* Atoms.prototype.get_scaled_positions: p . inv_cell for every atom, as
\* the numerators over the determinant den of the cell.
get_scaled_positions(obj) ==
    LET pos == get_array(obj, "positions")
        ic == obj.inv_cell
    IN  [num |-> [i \in 1..Len(pos) |-> VecMat(pos[i], ic[1])], den |-> ic[2]]

(* ------------------- the Atoms object and its caller ------------------- *)

VARIABLES
    obj,        \* the Atoms object the caller holds, NoAtoms before it is built
    built,      \* whether a construction has succeeded
    call,       \* the arguments of the last constructor call
    aerr,       \* the message of the throw that ended the last call, "" if none
    ret,        \* the value the last accessor call returned to the caller
    op,         \* the last operation the caller performed
    nmut,       \* how many times the caller has written into a returned value
    sarg        \* the name and the array of the last set_array call

avars == <<obj, built, call, aerr, ret, op, nmut, sarg>>

NoArg == [name |-> "", arr |-> <<>>]

NoCall == [elems |-> <<>>, positions |-> <<>>, cell |-> CNull,
           scaled |-> FALSE, tolerant |-> FALSE]

\* A returned value: a copy owned by the caller, or ("alias") the stored
\* array itself, read through obj.
NoRet == [kind |-> "none", name |-> "", val |-> Null]

ElemChoices == {ElSym("C"), ElSym("Zz"), ElNum(8), ElNum(99)}

PosChoices == {<<0, 0, 0>>, <<4, 2, 0>>, <<1>>}

SeqsUpTo(S, n) == UNION {[1..k -> S] : k \in 0..n}

CellChoices ==
    { CNull, CNum(0), CNum(2),
      CArr(<<CNum(1), CNum(2), CNum(3)>>),
      CArr(<<CNum(1), CNull, CNum(1)>>),
      CArr(<<CNum(1), CNum(0), CNull>>),
      CArr(<<CArr(<<1, 1, 0>>), CArr(<<0, 2, 0>>), CArr(<<0, 1, 3>>)>>),
      CArr(<<CArr(<<1, 1, 0>>), CNull, CArr(<<0, 1, 3>>)>>),
      CArr(<<CArr(<<1, 1, 0>>), CArr(<<2, 2, 0>>), CNum(3)>>),
      CArr(<<CArr(<<1, 0, 0>>), CArr(<<0, 2>>), CNum(3)>>),
      CArr(<<CArr(<<1, 2, 1>>), CArr(<<90, 90, 90>>)>>),
      CArr(<<CNum(1), CNum(2)>>),
      CArr(<<CNum(1), CNum(2), CNum(3), CNum(4)>>) }

\* The constructor calls drawn: every element list with every position
\* list without a cell, and every cell form with short lists.
ConstructorCalls ==
    { [elems |-> e, positions |-> p, cell |-> CNull, scaled |-> FALSE, tolerant |-> t] :
        e \in SeqsUpTo(ElemChoices, MaxAtoms), p \in SeqsUpTo(PosChoices, MaxAtoms),
        t \in BOOLEAN }
    \cup
    { [elems |-> e, positions |-> p, cell |-> c, scaled |-> s, tolerant |-> t] :
        e \in {<<ElSym("C")>>, <<ElSym("Zz")>>},
        p \in {<<>>, <<<<4, 2, 0>>>>, <<<<1>>>>},
        c \in CellChoices, s \in BOOLEAN, t \in BOOLEAN }

\* The array handed to set_array under a name: k entries, for k up to one
\* more than the number of atoms drawn.
SetArrayNames == {"positions", "labels"}

SetArrayArg(name, k) ==
    IF name = "positions" THEN [i \in 1..k |-> <<1, 1, 1>>] ELSE [i \in 1..k |-> "L"]

AInit ==
    /\ obj = NoAtoms
    /\ built = FALSE
    /\ call = NoCall
    /\ aerr = ""
    /\ ret = NoRet
    /\ op = "none"
    /\ nmut = 0
    /\ sarg = NoArg

\* var a = new Atoms(elems, positions, cell, info, scaled, tolerant)
Construct ==
    /\ op = "none"
    /\ \E c \in ConstructorCalls :
         LET r == AtomsNew(c.elems, c.positions, c.cell, c.scaled, c.tolerant)
         IN  /\ call' = c
             /\ aerr' = r.err
             /\ built' = r.ok
             /\ obj' = IF r.ok THEN r.obj ELSE obj
    /\ ret' = NoRet
    /\ op' = "new"
    /\ UNCHANGED <<nmut, sarg>>

\* a.set_array(name, arr)
SetArray ==
    /\ built
    /\ \E name \in SetArrayNames, k \in 0..(MaxAtoms + 1) :
         LET arr == SetArrayArg(name, k)
         IN  /\ sarg' = [name |-> name, arr |-> arr]
             /\ IF SetArrayAccepts(obj, arr)
                THEN /\ obj' = SetArrayStore(obj, name, arr)
                     /\ aerr' = ""
                ELSE /\ obj' = obj
                     /\ aerr' = "Invalid array size"
    /\ ret' = NoRet
    /\ op' = "set_array"
    /\ UNCHANGED <<built, call, nmut>>

\* a.get_array(name): the caller receives the stored array.
GetArray ==
    /\ built
    /\ \E name \in obj.keys : ret' = [kind |-> "alias", name |-> name, val |-> Null]
    /\ op' = "get_array"
    /\ aerr' = ""
    /\ UNCHANGED <<obj, built, call, nmut, sarg>>

\* The accessors that return a value of their own.
Getters == {"get_chemical_symbols", "get_atomic_numbers", "get_cell", "get_inv_cell",
            "get_pbc", "get_positions", "get_scaled_positions", "length"}

Returned(name) ==
    CASE name = "get_chemical_symbols" -> get_chemical_symbols(obj)
      [] name = "get_atomic_numbers" -> get_atomic_numbers(obj)
      [] name = "get_cell" -> get_cell(obj)
      [] name = "get_inv_cell" -> get_inv_cell(obj)
      [] name = "get_pbc" -> get_pbc(obj)
      [] name = "get_positions" -> get_positions(obj)
      [] name = "get_scaled_positions" -> get_scaled_positions(obj).num
      [] name = "length" -> <<length(obj)>>

\* a.get_cell(), a.get_positions(), ...; get_scaled_positions throws a
\* TypeError when there is no inverse cell to index.
Get ==
    /\ built
    /\ \E name \in Getters :
         IF name = "get_scaled_positions" /\ obj.inv_cell = Null
         THEN /\ ret' = NoRet
              /\ aerr' = "TypeError"
              /\ op' = name
         ELSE /\ ret' = [kind |-> "copy", name |-> name, val |-> Returned(name)]
              /\ aerr' = ""
              /\ op' = name
    /\ UNCHANGED <<obj, built, call, nmut, sarg>>

\* The value the caller reads through what the last accessor returned.
Held == IF ret.kind = "alias" THEN obj.arrays[ret.name] ELSE ret.val

\* The caller mutates the returned array in place: x.pop().
Pop(x) == SubSeq(x, 1, Len(x) - 1)

MutateReturned ==
    /\ nmut < MaxMutations
    /\ ret.kind # "none"
    /\ Held # Null
    /\ IF ret.kind = "alias"
       THEN /\ obj' = [obj EXCEPT !.arrays[ret.name] = Pop(@)]
            /\ ret' = ret
       ELSE /\ obj' = obj
            /\ ret' = [ret EXCEPT !.val = Pop(@)]
    /\ op' = "mutate"
    /\ nmut' = nmut + 1
    /\ UNCHANGED <<built, call, aerr, sarg>>

(* --------------------------- CIF data blocks --------------------------- *)

\* A parsed data block maps every tag to an entry: undefined (the tag is
\* not in the block), a single value or a loop of values.  value holds the
\* leaves: one for a single value, the rows for a loop.  A leaf stands for
\* both its get_value() and its text.
Undefined == [type |-> "undefined", value |-> <<>>]

Single(v) == [type |-> "single", value |-> <<v>>]

Loop(vs) == [type |-> "loop", value |-> vs]

asite_tags == << "_atom_site_label", "_atom_site_type_symbol",
                 "_atom_site_Cartn_x", "_atom_site_Cartn_y", "_atom_site_Cartn_z",
                 "_atom_site_fract_x", "_atom_site_fract_y", "_atom_site_fract_z" >>

cell_tags == << "_cell_length_a", "_cell_length_b", "_cell_length_c",
                "_cell_angle_alpha", "_cell_angle_beta", "_cell_angle_gamma" >>

symop_tags == << "_space_group_symop_operation_xyz", "_symmetry_equiv_pos_as_xyz" >>

hall_tags == << "_space_group_name_Hall", "_symmetry_space_group_name_Hall" >>

Range(f) == {f[k] : k \in DOMAIN f}

Tags == Range(asite_tags) \cup Range(cell_tags) \cup Range(symop_tags) \cup Range(hall_tags)

\* An extracted column, or the null that stands for a rejected tag.
NullColumn == [null |-> TRUE, value |-> <<>>]

Column(vs) == [null |-> FALSE, value |-> vs]

\* _extract_tags that gives up on the whole group when one of the tags is
\* undefined, of another type or of another length than the first.
_extract_tagsStrict(cblock, tags) ==
    LET extracted == [k \in 1..Len(tags) |-> cblock[tags[k]]]
        basetype == extracted[1].type
        baselen == Len(extracted[1].value)
    IN  IF \E k \in 1..Len(tags) :
               \/ extracted[k].type = "undefined"
               \/ extracted[k].type # basetype
               \/ Len(extracted[k].value) # baselen
        THEN [null |-> TRUE, value |-> <<>>]
        ELSE [null |-> FALSE,
              value |-> [k \in 1..Len(tags) |-> Column(extracted[k].value)]]

\* _extract_tags(cblock, tags): null when the first tag is undefined,
\* else one column or null per tag.
_extract_tags(cblock, tags) ==
    LET extracted == [k \in 1..Len(tags) |-> cblock[tags[k]]]
        basetype == extracted[1].type
        baselen == Len(extracted[1].value)
    IN  IF extracted[1].type = "undefined"
        THEN [null |-> TRUE, value |-> <<>>]
        ELSE [null |-> FALSE,
              value |-> [k \in 1..Len(tags) |->
                  LET x == extracted[k]
                  IN  IF x.type = "undefined" THEN NullColumn
                      ELSE IF x.type # basetype THEN NullColumn
                      ELSE IF basetype = "loop" /\ Len(x.value) # baselen THEN NullColumn
                      ELSE IF basetype = "loop" THEN Column(x.value)
                      ELSE Column(<<x.value[1]>>)]]

\* A field of an atom site: its value, or undefined when the column was
\* rejected.
Field(col, i, none) ==
    IF col.null THEN [def |-> FALSE, v |-> none] ELSE [def |-> TRUE, v |-> col.value[i]]

\* _atom_sites(cblock): one record per row of the label column, or null.
_atom_sites(cblock) ==
    LET sitevals == _extract_tags(cblock, asite_tags)
    IN  IF sitevals.null
        THEN [null |-> TRUE, value |-> <<>>]
        ELSE [null |-> FALSE,
              value |-> [i \in 1..Len(sitevals.value[1].value) |->
                  [ label       |-> Field(sitevals.value[1], i, ""),
                    type_symbol |-> Field(sitevals.value[2], i, ""),
                    Cartn_x     |-> Field(sitevals.value[3], i, 0),
                    Cartn_y     |-> Field(sitevals.value[4], i, 0),
                    Cartn_z     |-> Field(sitevals.value[5], i, 0),
                    fract_x     |-> Field(sitevals.value[6], i, 0),
                    fract_y     |-> Field(sitevals.value[7], i, 0),
                    fract_z     |-> Field(sitevals.value[8], i, 0) ]]]

\* _cellpars(cblock): <<lengths, angles>>, or null (the empty tuple) when
\* a tag is undefined or a length is zero.
_cellpars(cblock) ==
    LET par(k) == cblock[cell_tags[k]].value[1]
    IN  IF \E k \in 1..6 : cblock[cell_tags[k]].type = "undefined" THEN Null
        ELSE IF \E k \in 1..3 : par(k) = 0 THEN Null
        ELSE << <<par(1), par(2), par(3)>>, <<par(4), par(5), par(6)>> >>

(* ------------------------- symmetry.js --------------------------------- *)

Identity == <<<<1, 0, 0>>, <<0, 1, 0>>, <<0, 0, 1>>>>

Inversion == <<<<-1, 0, 0>>, <<0, -1, 0>>, <<0, 0, -1>>>>

\* The operator strings the model draws; the translations are in steps of
\* the grid.
OpTexts == {"x,y,z", "-x,-y,-z", "x+1/2,y,z", "x+1/2,y+1/4,z"}

\* symmetry.parseSymOp(text): the pair <<rotation, translation>>.
parseSymOp(text) ==
    CASE text = "x,y,z"          -> <<Identity, <<0, 0, 0>>>>
      [] text = "-x,-y,-z"       -> <<Inversion, <<0, 0, 0>>>>
      [] text = "x+1/2,y,z"      -> <<Identity, <<2, 0, 0>>>>
      [] text = "x+1/2,y+1/4,z"  -> <<Identity, <<2, 1, 0>>>>

\* symmetry.interpretHallSymbol: the operators of a Hall symbol.
interpretHallSymbol(hallsymbol) ==
    CASE hallsymbol.value[1] = "P 1"  -> <<parseSymOp("x,y,z")>>
      [] hallsymbol.value[1] = "-P 1" -> <<parseSymOp("x,y,z"), parseSymOp("-x,-y,-z")>>

\* a || b on two entries of a block.
OrElse(a, b) == IF a.type # "undefined" THEN a ELSE b

NoSymops == [null |-> TRUE, ops |-> <<>>]

\* _symops that parses every entry of the operator list, the first one
\* included, whatever their number.
_symopsAll(cblock) ==
    LET symopvals == OrElse(cblock[symop_tags[1]], cblock[symop_tags[2]])
        hallsymbol == OrElse(cblock[hall_tags[1]], cblock[hall_tags[2]])
    IN  IF symopvals.type # "undefined"
        THEN [null |-> FALSE,
              ops |-> [k \in 1..Len(symopvals.value) |-> parseSymOp(symopvals.value[k])]]
        ELSE IF hallsymbol.type # "undefined"
        THEN [null |-> FALSE, ops |-> interpretHallSymbol(hallsymbol)]
        ELSE NoSymops

\* _symops(cblock): the operators to apply, or null.
_symops(cblock) ==
    LET symopvals == OrElse(cblock[symop_tags[1]], cblock[symop_tags[2]])
        hallsymbol == OrElse(cblock[hall_tags[1]], cblock[hall_tags[2]])
    IN  IF symopvals.type # "undefined"
        THEN IF symopvals.type = "single" \/ Len(symopvals.value) = 1
             THEN NoSymops
             ELSE [null |-> FALSE,
                   ops |-> [k \in 1..(Len(symopvals.value) - 1) |->
                               parseSymOp(symopvals.value[k + 1])]]
        ELSE IF hallsymbol.type # "undefined"
        THEN [null |-> FALSE, ops |-> interpretHallSymbol(hallsymbol)]
        ELSE NoSymops

(* ----------------------- Atoms.readCif, its steps ---------------------- *)

\* SitePosition without the throw of line 476: the fractional coordinates
\* are taken as they are when there is no cell.
SitePositionLenient(site, pbc, cell) ==
    IF site.Cartn_x.def /\ site.Cartn_y.def /\ site.Cartn_z.def
    THEN [ok |-> TRUE, err |-> "",
          p |-> <<site.Cartn_x.v, site.Cartn_y.v, site.Cartn_z.v>>]
    ELSE IF ~pbc
    THEN [ok |-> TRUE, err |-> "",
          p |-> <<site.fract_x.v, site.fract_y.v, site.fract_z.v>>]
    ELSE [ok |-> TRUE, err |-> "",
          p |-> VecMat(<<site.fract_x.v, site.fract_y.v, site.fract_z.v>>, cell)]

\* readCif, lines 471-481: the Cartesian position of a site, or a throw.
\* mjs.multiply rejects undefined fractional coordinates with a TypeError.
SitePosition(site, pbc, cell) ==
    IF site.Cartn_x.def /\ site.Cartn_y.def /\ site.Cartn_z.def
    THEN [ok |-> TRUE, err |-> "",
          p |-> <<site.Cartn_x.v, site.Cartn_y.v, site.Cartn_z.v>>]
    ELSE IF ~pbc
    THEN [ok |-> FALSE, err |-> "Absolute coordinates are necessary without a unit cell",
          p |-> <<0, 0, 0>>]
    ELSE IF ~(site.fract_x.def /\ site.fract_y.def /\ site.fract_z.def)
    THEN [ok |-> FALSE, err |-> "TypeError", p |-> <<0, 0, 0>>]
    ELSE [ok |-> TRUE, err |-> "",
          p |-> VecMat(<<site.fract_x.v, site.fract_y.v, site.fract_z.v>>, cell)]

\* The element argument readCif passes for a site's type symbol.
SiteElem(site) == IF site.type_symbol.def THEN ElSym(site.type_symbol.v) ELSE ElUndefined

\* readCif, lines 497-500: the image of p0 under an operator.
Image(symop, p0) == mod1(VecAdd(MatVec(symop[1], p0), symop[2]))

\* Equivalent with "r <= symtol" in the place of "r < symtol".
EquivalentAtMost(p, allp, tol) ==
    \E k \in 1..Len(allp) :
        shortestPeriodicLengthSq(mod1(VecSub(p, allp[k]))) <= tol * tol

\* Equivalent that compares p with the site's own position only.
EquivalentToFirst(p, allp, tol) ==
    LengthBelow(shortestPeriodicLengthSq(mod1(VecSub(p, allp[1]))), tol)

\* readCif, lines 502-510: whether p is equivalent to a position of allp.
Equivalent(p, allp, tol) ==
    \E k \in 1..Len(allp) :
        LengthBelow(shortestPeriodicLengthSq(mod1(VecSub(p, allp[k]))), tol)

\* Accept that keeps the latest of two equivalent positions: the candidate
\* takes the place of the first accepted entry it is equivalent to.
AcceptLatest(allp, p, tol) ==
    IF ~Equivalent(p, allp, tol) THEN Append(allp, p)
    ELSE LET k == CHOOSE k \in 1..Len(allp) :
                     /\ LengthBelow(shortestPeriodicLengthSq(mod1(VecSub(p, allp[k]))), tol)
                     /\ \A m \in 1..(k - 1) :
                           ~LengthBelow(shortestPeriodicLengthSq(mod1(VecSub(p, allp[m]))), tol)
         IN  [allp EXCEPT ![k] = p]

\* Accept without the duplicate test.
AcceptAlways(allp, p, tol) == Append(allp, p)

\* readCif, lines 511-513: allp after the candidate p.
Accept(allp, p, tol) == IF ~Equivalent(p, allp, tol) THEN Append(allp, p) ELSE allp

\* Array(n).fill(x)
Fill(n, x) == [k \in 1..n |-> x]

\* The cell argument readCif hands to the constructor: its variable cell,
\* undefined or a Cartesian cell.
CellArg(cell) ==
    IF cell = Null THEN CNull ELSE CArr(<<CArr(cell[1]), CArr(cell[2]), CArr(cell[3])>>)

\* readCif, lines 527-528: new Atoms(symbols, positions, cell, {}) and
\* set_array('labels', labels).
CreateStruct(elems, positions, cell, labels) ==
    LET r == AtomsNew(elems, positions, CellArg(cell), FALSE, FALSE)
    IN  IF ~r.ok THEN r
        ELSE IF ~SetArrayAccepts(r.obj, labels) THEN Thrown("Invalid array size")
        ELSE [ok |-> TRUE, err |-> "", obj |-> SetArrayStore(r.obj, "labels", labels)]

(* ---------------------------- Atoms.readCif ---------------------------- *)

VARIABLES
    cifdict,    \* the parsed document: the data blocks, named by their index
    symtol,     \* the tolerance, in steps of the grid
    pc,         \* where readCif is: "start", "block", "expand", "create",
                \* "returned" or "thrown"
    cerr,       \* the message of the throw that ended readCif
    structs,    \* the result mapping: per block name, absent, the raw block
                \* or the Atoms structure
    sname,      \* the block being processed
    cell,       \* var cell: function scoped, it outlives a loop iteration
    pbc,        \* var pbc
    symbols,    \* var symbols
    labels,     \* var labels
    positions,  \* var positions
    symops,     \* var symops
    fpos,       \* var fpos
    allfpos,    \* var allfpos
    allsyms,    \* var allsyms
    alllabs,    \* var alllabs
    si,         \* the site index i of the expansion loop
    oj,         \* the operator index j of the expansion loop
    allp        \* var allp: the accepted list of site si

cvars == <<cifdict, symtol, pc, cerr, structs, sname, cell, pbc, symbols, labels,
           positions, symops, fpos, allfpos, allsyms, alllabs, si, oj, allp>>

vars == <<cvars, avars>>

Absent == [kind |-> "absent", atoms |-> NoAtoms]

RawBlock == [kind |-> "block", atoms |-> NoAtoms]

\* Struct that leaves the raw block in the mapping.
StructRaw(a) == RawBlock

\* readCif, line 530: the value stored under the block name.
Struct(a) == [kind |-> "atoms", atoms |-> a]

\* '_atom_site_label' in block
HasSiteLabel(block) == block["_atom_site_label"].type # "undefined"

\* The keys of structs after sname, in the order for..in visits them.
Remaining == {b \in DOMAIN structs : b > sname /\ structs[b].kind # "absent"}

\* readCif, lines 440-449: every block with atom sites enters structs.
SelectBlocks ==
    /\ pc = "start"
    /\ structs' = [b \in 1..Len(cifdict) |->
                     IF HasSiteLabel(cifdict[b]) THEN RawBlock ELSE Absent]
    /\ pc' = "block"
    /\ UNCHANGED <<cifdict, symtol, cerr, sname, cell, pbc, symbols, labels, positions,
                   symops, fpos, allfpos, allsyms, alllabs, si, oj, allp>>

\* readCif, lines 451-495: the next block's sites, cell and positions, and
\* the start of its symmetry expansion.
BeginBlock ==
    /\ pc = "block"
    /\ Remaining # {}
    /\ LET next == SetMin(Remaining)
           cblock == cifdict[next]
           asites == _atom_sites(cblock).value
           cellpars == _cellpars(cblock)
           ispbc == cellpars # Null
           newcell == IF ispbc THEN cellparToCell(cellpars) ELSE cell
           sp == [k \in 1..Len(asites) |-> SitePosition(asites[k], ispbc, newcell)]
           pos == [k \in 1..Len(asites) |-> sp[k].p]
           ops == IF ispbc THEN _symops(cblock) ELSE symops
           expanding == ispbc /\ ~ops.null
           fp == [k \in 1..Len(pos) |-> VecInv(pos[k], Inv(newcell))]
       IN  /\ sname' = next
           /\ pbc' = ispbc
           /\ cell' = newcell
           /\ IF \E k \in 1..Len(asites) : ~sp[k].ok
              THEN /\ pc' = "thrown"
                   /\ cerr' = sp[SetMin({k \in 1..Len(asites) : ~sp[k].ok})].err
                   /\ UNCHANGED <<symbols, labels, positions, symops, fpos, allfpos,
                                  allsyms, alllabs, si, oj, allp>>
              ELSE /\ symbols' = [k \in 1..Len(asites) |-> SiteElem(asites[k])]
                   /\ labels' = [k \in 1..Len(asites) |-> asites[k].label.v]
                   /\ positions' = pos
                   /\ symops' = ops
                   /\ cerr' = cerr
                   /\ IF expanding
                      THEN /\ fpos' = fp
                           /\ allfpos' = <<>>
                           /\ allsyms' = <<>>
                           /\ alllabs' = <<>>
                           /\ si' = 1
                           /\ oj' = 1
                           /\ allp' = IF Len(fp) >= 1 THEN <<fp[1]>> ELSE allp
                           /\ pc' = "expand"
                      ELSE /\ pc' = "create"
                           /\ UNCHANGED <<fpos, allfpos, allsyms, alllabs, si, oj, allp>>
    /\ UNCHANGED <<cifdict, symtol, structs>>

\* readCif, lines 496-514: one operator applied to the site p0 = fpos[si].
ApplyOp ==
    /\ pc = "expand"
    /\ si <= Len(fpos)
    /\ oj <= Len(symops.ops)
    /\ allp' = Accept(allp, Image(symops.ops[oj], fpos[si]), symtol)
    /\ oj' = oj + 1
    /\ UNCHANGED <<cifdict, symtol, pc, cerr, structs, sname, cell, pbc, symbols, labels,
                   positions, symops, fpos, allfpos, allsyms, alllabs, si>>

\* readCif, lines 515-518 and 493-495: the accepted list of a site joins
\* the output, the next site starts.
NextSite ==
    /\ pc = "expand"
    /\ si <= Len(fpos)
    /\ oj > Len(symops.ops)
    /\ allfpos' = allfpos \o allp
    /\ allsyms' = allsyms \o Fill(Len(allp), symbols[si])
    /\ alllabs' = alllabs \o Fill(Len(allp), labels[si])
    /\ si' = si + 1
    /\ oj' = 1
    /\ allp' = IF si + 1 <= Len(fpos) THEN <<fpos[si + 1]>> ELSE allp
    /\ UNCHANGED <<cifdict, symtol, pc, cerr, structs, sname, cell, pbc, symbols, labels,
                   positions, symops, fpos>>

\* readCif, lines 520-522: the expanded lists replace the site lists.
FinishExpand ==
    /\ pc = "expand"
    /\ si > Len(fpos)
    /\ symbols' = allsyms
    /\ labels' = alllabs
    /\ positions' = [k \in 1..Len(allfpos) |-> VecMat(allfpos[k], cell)]
    /\ pc' = "create"
    /\ UNCHANGED <<cifdict, symtol, cerr, structs, sname, cell, pbc, symops, fpos,
                   allfpos, allsyms, alllabs, si, oj, allp>>

\* readCif, lines 526-530: the Atoms structure of the block enters structs.
CreateAtoms ==
    /\ pc = "create"
    /\ LET r == CreateStruct(symbols, positions, cell, labels)
       IN  IF r.ok
           THEN /\ structs' = [structs EXCEPT ![sname] = Struct(r.obj)]
                /\ pc' = "block"
                /\ cerr' = cerr
           ELSE /\ structs' = structs
                /\ pc' = "thrown"
                /\ cerr' = r.err
    /\ UNCHANGED <<cifdict, symtol, sname, cell, pbc, symbols, labels, positions,
                   symops, fpos, allfpos, allsyms, alllabs, si, oj, allp>>

\* readCif, line 533: return structs.
Return ==
    /\ pc = "block"
    /\ Remaining = {}
    /\ pc' = "returned"
    /\ UNCHANGED <<cifdict, symtol, cerr, structs, sname, cell, pbc, symbols, labels,
                   positions, symops, fpos, allfpos, allsyms, alllabs, si, oj, allp>>

(* ------------------------- the documents drawn ------------------------- *)

SiteLabels == <<"A1", "A2", "A3", "A4">>

SiteSymbols == <<"C", "O", "H", "C">>

\* The fractional positions drawn for a site, in steps of the grid.
SitePositions == {<<0, 0, 0>>, <<2, 0, 0>>, <<1, 0, 3>>}

SeqsFromTo(S, lo, hi) == UNION {[1..k -> S] : k \in lo..hi}

\* The description of a block, from which MkBlock builds its tags:
\*   label   whether the block has the _atom_site_label loop
\*   typed   "yes", "no" (no type symbol column) or "unknown" (symbol Zz)
\*   coords  which coordinate columns it has: "cart", "fract" or "both"
\*   cellp   the cell lengths, Null when the cell tags are missing
\*   sites   the fractional position of every site
\*   symk    how the operators are given: "none", "single", "loop",
\*           "legacy" (the legacy loop tag), "hall", "legacyhall"
\*   ops     the operator strings of the loop, or the Hall symbol
BlockOf(label, typed, coords, cellp, sites, symk, ops) ==
    [label |-> label, typed |-> typed, coords |-> coords, cellp |-> cellp,
     sites |-> sites, symk |-> symk, ops |-> ops]

\* The tags of a described block.  The Cartesian columns hold the sites'
\* positions in the block's cell; when both kinds of columns are present
\* the fractional ones name a different point.
MkBlock(b) ==
    LET n == Len(b.sites)
        lens == IF b.cellp = Null \/ 0 \in Range(b.cellp) THEN <<1, 1, 1>> ELSE b.cellp
        cart(c) == Loop([k \in 1..n |-> b.sites[k][c] * lens[c]])
        fract(c) == Loop([k \in 1..n |->
                       IF b.coords = "both" THEN (b.sites[k][c] + 1) % Grid ELSE b.sites[k][c]])
        hasCart == b.coords \in {"cart", "both"}
        hasFract == b.coords \in {"fract", "both"}
    IN  [tag \in Tags |->
            CASE tag = "_atom_site_label" ->
                    IF b.label THEN Loop([k \in 1..n |-> SiteLabels[k]]) ELSE Undefined
              [] tag = "_atom_site_type_symbol" ->
                    IF b.typed = "no" THEN Undefined
                    ELSE Loop([k \in 1..n |->
                                 IF b.typed = "unknown" THEN "Zz" ELSE SiteSymbols[k]])
              [] tag = "_atom_site_Cartn_x" -> IF hasCart THEN cart(1) ELSE Undefined
              [] tag = "_atom_site_Cartn_y" -> IF hasCart THEN cart(2) ELSE Undefined
              [] tag = "_atom_site_Cartn_z" -> IF hasCart THEN cart(3) ELSE Undefined
              [] tag = "_atom_site_fract_x" -> IF hasFract THEN fract(1) ELSE Undefined
              [] tag = "_atom_site_fract_y" -> IF hasFract THEN fract(2) ELSE Undefined
              [] tag = "_atom_site_fract_z" -> IF hasFract THEN fract(3) ELSE Undefined
              [] tag = "_cell_length_a" ->
                    IF b.cellp = Null THEN Undefined ELSE Single(b.cellp[1])
              [] tag = "_cell_length_b" ->
                    IF b.cellp = Null THEN Undefined ELSE Single(b.cellp[2])
              [] tag = "_cell_length_c" ->
                    IF b.cellp = Null THEN Undefined ELSE Single(b.cellp[3])
              [] tag \in {"_cell_angle_alpha", "_cell_angle_beta", "_cell_angle_gamma"} ->
                    IF b.cellp = Null THEN Undefined ELSE Single(90)
              [] tag = "_space_group_symop_operation_xyz" ->
                    IF b.symk = "loop" THEN Loop(b.ops)
                    ELSE IF b.symk = "single" THEN Single(b.ops[1])
                    ELSE Undefined
              [] tag = "_symmetry_equiv_pos_as_xyz" ->
                    IF b.symk = "legacy" THEN Loop(b.ops) ELSE Undefined
              [] tag = "_space_group_name_Hall" ->
                    IF b.symk = "hall" THEN Single(b.ops[1]) ELSE Undefined
              [] tag = "_symmetry_space_group_name_Hall" ->
                    IF b.symk = "legacyhall" THEN Single(b.ops[1]) ELSE Undefined]

OneSite == <<<<1, 0, 3>>>>

\* The blocks of the documents with several blocks: without atom sites,
\* periodic, aperiodic (no cell tags, a zero length), without Cartesian
\* coordinates and without a cell, with operators, with an unknown or no
\* type symbol.
DocBlocks ==
    { BlockOf(FALSE, "yes", "cart", <<2, 2, 2>>, OneSite, "none", <<>>),
      BlockOf(TRUE, "yes", "cart", <<2, 2, 2>>, OneSite, "none", <<>>),
      BlockOf(TRUE, "yes", "cart", Null, OneSite, "none", <<>>),
      BlockOf(TRUE, "yes", "both", <<2, 0, 2>>, OneSite, "none", <<>>),
      BlockOf(TRUE, "yes", "fract", Null, OneSite, "none", <<>>),
      BlockOf(TRUE, "yes", "fract", <<1, 2, 1>>, OneSite, "loop", <<"x,y,z", "-x,-y,-z">>),
      BlockOf(TRUE, "unknown", "cart", <<2, 2, 2>>, OneSite, "none", <<>>),
      BlockOf(TRUE, "no", "cart", Null, OneSite, "none", <<>>) }

\* The ways a periodic block names its operators: not at all, a single
\* value, a loop (current or legacy tag) whose first entry is the identity
\* followed by up to MaxOps operators, a Hall symbol.
SymopChoices ==
    { <<"none", <<>>>>, <<"single", <<"x,y,z">>>>,
      <<"hall", <<"P 1">>>>, <<"legacyhall", <<"-P 1">>>>,
      <<"legacy", <<"x,y,z", "-x,-y,-z">>>> }
    \cup
    { <<"loop", <<"x,y,z">> \o o>> : o \in SeqsFromTo(OpTexts, 0, MaxOps) }

\* The blocks of the documents with one block: periodic, with up to
\* MaxSites sites.
ExpandBlocks ==
    { BlockOf(TRUE, "yes", c[1], c[2], s, k[1], k[2]) :
        c \in {<<"fract", <<2, 2, 2>>>>, <<"cart", <<1, 2, 1>>>>},
        s \in SeqsFromTo(SitePositions, 1, MaxSites),
        k \in SymopChoices }

\* A block with one of its tags replaced by another entry.
Malform(block, tag, entry) == [block EXCEPT ![tag] = entry]

\* The well-formed blocks the malformed ones are made from: Cartesian and
\* fractional columns, one or two sites, with and without a cell.
MalformBase ==
    { MkBlock(BlockOf(TRUE, "yes", "both", c, s, "none", <<>>)) :
        c \in {<<2, 2, 2>>, Null}, s \in {OneSite, <<<<1, 0, 3>>, <<2, 0, 0>>>>} }

\* The entries that take the place of a column: a single value where the
\* label is a loop (or the reverse), a loop of another number of rows.
Malformations ==
    { <<"_atom_site_label", Single("A1")>>,
      <<"_atom_site_type_symbol", Single("C")>>,
      <<"_atom_site_type_symbol", Loop(<<"C", "O", "H">>)>>,
      <<"_atom_site_Cartn_x", Single(0)>>,
      <<"_atom_site_Cartn_x", Loop(<<0, 0, 0>>)>>,
      <<"_atom_site_fract_y", Single(0)>>,
      <<"_atom_site_fract_y", Loop(<<0, 0, 0>>)>> }

\* A block whose atom site tags are all single values.
SingleValued ==
    [tag \in Tags |->
        CASE tag = "_atom_site_label" -> Single("A1")
          [] tag = "_atom_site_type_symbol" -> Single("C")
          [] tag \in {"_atom_site_Cartn_x", "_atom_site_Cartn_y", "_atom_site_Cartn_z"} ->
                Single(0)
          [] OTHER -> Undefined]

MalformedBlocks ==
    {Malform(b, m[1], m[2]) : b \in MalformBase, m \in Malformations} \cup {SingleValued}

Docs == SeqsFromTo(DocBlocks, 1, MaxBlocks) \cup {<<b>> : b \in ExpandBlocks}

Tols == 0..MaxTol

CInit ==
    /\ \/ \E d \in Docs : cifdict = [k \in 1..Len(d) |-> MkBlock(d[k])]
       \/ \E m \in MalformedBlocks : cifdict = <<m>>
    /\ symtol \in Tols
    /\ pc = "start"
    /\ cerr = ""
    /\ structs = <<>>
    /\ sname = 0
    /\ cell = Null
    /\ pbc = FALSE
    /\ symbols = <<>>
    /\ labels = <<>>
    /\ positions = <<>>
    /\ symops = NoSymops
    /\ fpos = <<>>
    /\ allfpos = <<>>
    /\ allsyms = <<>>
    /\ alllabs = <<>>
    /\ si = 1
    /\ oj = 1
    /\ allp = <<>>

(* --------------------------- specifications ---------------------------- *)

Init == CInit /\ AInit

\* Atoms.readCif(cif, symtol) on a document.
Next ==
    \/ SelectBlocks /\ UNCHANGED avars
    \/ BeginBlock /\ UNCHANGED avars
    \/ ApplyOp /\ UNCHANGED avars
    \/ NextSite /\ UNCHANGED avars
    \/ FinishExpand /\ UNCHANGED avars
    \/ CreateAtoms /\ UNCHANGED avars
    \/ Return /\ UNCHANGED avars

Spec == Init /\ [][Next]_vars

\* A caller that builds an Atoms object and uses its methods.
AInitC ==
    /\ AInit
    /\ cifdict = <<>>
    /\ symtol = 0
    /\ pc = "idle"
    /\ cerr = ""
    /\ structs = <<>>
    /\ sname = 0
    /\ cell = Null
    /\ pbc = FALSE
    /\ symbols = <<>>
    /\ labels = <<>>
    /\ positions = <<>>
    /\ symops = NoSymops
    /\ fpos = <<>>
    /\ allfpos = <<>>
    /\ allsyms = <<>>
    /\ alllabs = <<>>
    /\ si = 1
    /\ oj = 1
    /\ allp = <<>>

AtomsNext ==
    \/ Construct /\ UNCHANGED cvars
    \/ SetArray /\ UNCHANGED cvars
    \/ GetArray /\ UNCHANGED cvars
    \/ Get /\ UNCHANGED cvars

SpecAtoms == AInitC /\ [][AtomsNext]_vars

\* The same caller, who also writes into the values the accessors return.
AliasNext ==
    \/ Construct /\ UNCHANGED cvars
    \/ GetArray /\ UNCHANGED cvars
    \/ Get /\ UNCHANGED cvars
    \/ MutateReturned /\ UNCHANGED cvars

SpecAlias == AInitC /\ [][AliasNext]_vars

(* ------------------- readCif on one block, as a function --------------- *)

RECURSIVE ExpandSite(_, _, _, _, _)
\* readCif, lines 496-514: the accepted list allp of the site p0 after the
\* operators from index k on.
ExpandSite(acc, p0, ops, k, tol) ==
    IF k > Len(ops) THEN acc
    ELSE ExpandSite(Accept(acc, Image(ops[k], p0), tol), p0, ops, k + 1, tol)

RECURSIVE Concat(_, _)
\* The concatenation of the first n lists of a sequence of lists.
Concat(lists, n) == IF n = 0 THEN <<>> ELSE Concat(lists, n - 1) \o lists[n]

\* readCif, lines 452-530, for a block processed first: the structure of
\* the block, or the throw.
ReadAlone(cblock, tol) ==
    LET asites == _atom_sites(cblock).value
        n == Len(asites)
        cellpars == _cellpars(cblock)
        ispbc == cellpars # Null
        cell0 == IF ispbc THEN cellparToCell(cellpars) ELSE Null
        sp == [k \in 1..n |-> SitePosition(asites[k], ispbc, cell0)]
        elems == [k \in 1..n |-> SiteElem(asites[k])]
        labs == [k \in 1..n |-> asites[k].label.v]
        ops == IF ispbc THEN _symops(cblock) ELSE NoSymops
        orbit == [k \in 1..n |->
                    LET p0 == VecInv(sp[k].p, Inv(cell0))
                    IN  ExpandSite(<<p0>>, p0, ops.ops, 1, tol)]
        allf == Concat(orbit, n)
    IN  IF \E k \in 1..n : ~sp[k].ok
        THEN Thrown(sp[SetMin({k \in 1..n : ~sp[k].ok})].err)
        ELSE IF ispbc /\ ~ops.null
        THEN CreateStruct(Concat([k \in 1..n |-> Fill(Len(orbit[k]), elems[k])], n),
                          [k \in 1..Len(allf) |-> VecMat(allf[k], cell0)],
                          cell0,
                          Concat([k \in 1..n |-> Fill(Len(orbit[k]), labs[k])], n))
        ELSE CreateStruct(elems, [k \in 1..n |-> sp[k].p], cell0, labs)

(* ------------------------------ claims --------------------------------- *)

\* The periodic distance of the duplicate test (lines 504-505), squared.
PeriodicDistSq(p, q) == shortestPeriodicLengthSq(mod1(VecSub(p, q)))

\* The names of the blocks of the document.
BlockNames == 1..Len(cifdict)

\* Whether a block is periodic and names symmetry operators.
Expanded(block) == _cellpars(block) # Null /\ ~_symops(block).null

\* C1: during the symmetry expansion, after every operator, no two
\* positions of the accepted list of the current site are closer than
\* symtol under the periodic distance of the duplicate test.
C1_AcceptedApart ==
    \A a \in 1..Len(allp) : \A b \in 1..Len(allp) :
        a # b => ~LengthBelow(PeriodicDistSq(allp[a], allp[b]), symtol)

\* C1 witness: in the middle of an expansion an operator's image was
\* discarded although it is none of the accepted positions, and another
\* image was accepted.
C1_Witness ==
    /\ pc = "expand"
    /\ si <= Len(fpos)
    /\ Len(allp) >= 2
    /\ \E k \in 1..(oj - 1) :
          \A a \in 1..Len(allp) : allp[a] # Image(symops.ops[k], fpos[si])

\* The scaled positions of a structure as numerators over a positive
\* denominator: atom k sits at num[k] / den in steps of the grid.
ScaledOf(a) ==
    LET sp == get_scaled_positions(a)
    IN  IF sp.den < 0
        THEN [num |-> [k \in 1..Len(sp.num) |-> VecSub(<<0, 0, 0>>, sp.num[k])],
              den |-> -sp.den]
        ELSE sp

\* The periodic distance of two atoms of a structure as the test
\* "should not create artefacts" computes it, squared, in units of
\* 1 / den steps of the grid.
AtomsDistSq(a, k, m) ==
    LET sp == ScaledOf(a)
        period == Grid * sp.den
        r == VecSub(sp.num[m], sp.num[k])
    IN  shortestPeriodicLengthSqOn(<<r[1] % period, r[2] % period, r[3] % period>>, period)

\* C2 as claimed: in a structure returned for a periodic block with
\* operators, every two distinct atoms are farther apart than symtol.
C2_AllAtomsApart ==
    pc = "returned" =>
        \A b \in BlockNames :
            structs[b].kind = "atoms" /\ Expanded(cifdict[b]) =>
                LET a == structs[b].atoms
                    den == ScaledOf(a).den
                IN  \A k \in 1..a.N : \A m \in (k + 1)..a.N :
                        AtomsDistSq(a, k, m) > (symtol * den) * (symtol * den)

\* C2 amended: in a structure returned for a periodic block with
\* operators, two distinct atoms that come from the same site (they carry
\* its label) are at least symtol apart.
C2_SameSiteAtomsApart ==
    pc = "returned" =>
        \A b \in BlockNames :
            structs[b].kind = "atoms" /\ Expanded(cifdict[b]) =>
                LET a == structs[b].atoms
                    den == ScaledOf(a).den
                IN  \A k \in 1..a.N : \A m \in (k + 1)..a.N :
                        a.arrays.labels[k] = a.arrays.labels[m] =>
                            AtomsDistSq(a, k, m) >= (symtol * den) * (symtol * den)

\* C2 witness: a returned structure of an expanded block holds two atoms of
\* one site, and two atoms of different sites closer than symtol.
C2_Witness ==
    /\ pc = "returned"
    /\ symtol > 0
    /\ \E b \in BlockNames :
          /\ structs[b].kind = "atoms"
          /\ Expanded(cifdict[b])
          /\ LET a == structs[b].atoms
                 den == ScaledOf(a).den
             IN  /\ \E k \in 1..a.N : \E m \in (k + 1)..a.N :
                        a.arrays.labels[k] = a.arrays.labels[m]
                 /\ \E k \in 1..a.N : \E m \in (k + 1)..a.N :
                        /\ a.arrays.labels[k] # a.arrays.labels[m]
                        /\ AtomsDistSq(a, k, m) < (symtol * den) * (symtol * den)

\* C3 as claimed: the structure of a block is the one readCif produces for
\* the block alone, and a block without usable cell parameters yields a
\* structure without cell and pbc.
C3_BlockAlone ==
    \A b \in DOMAIN structs :
        structs[b].kind = "atoms" =>
            /\ structs[b].atoms = ReadAlone(cifdict[b], symtol).obj
            /\ _cellpars(cifdict[b]) = Null =>
                  /\ structs[b].atoms.pbc = <<FALSE, FALSE, FALSE>>
                  /\ structs[b].atoms.cell = Null

\* The throw for a site without Cartesian coordinates in a block without
\* a cell.
MissingCoordinates == "Absolute coordinates are necessary without a unit cell"

\* A block with atom sites, one of which has an undefined Cartesian
\* coordinate, and without usable cell parameters.
LacksCoordinates(block) ==
    /\ block["_atom_site_label"].type # "undefined"
    /\ _cellpars(block) = Null
    /\ \E k \in 1..Len(_atom_sites(block).value) :
          LET site == _atom_sites(block).value[k]
          IN  ~(site.Cartn_x.def /\ site.Cartn_y.def /\ site.Cartn_z.def)

\* C4 as claimed: a block that cannot yield coordinates does not abort
\* readCif.
C4_NoAbort == ~(pc = "thrown" /\ cerr = MissingCoordinates)

\* C4 amended: readCif returns only when no block with atom sites lacks
\* coordinates; such a block makes readCif throw when its turn comes,
\* whatever blocks came before, and then no mapping is returned: the
\* block is still the raw block in structs and the blocks after it are
\* never processed.
C4_MissingCoordinatesAbort ==
    /\ pc = "returned" => \A b \in BlockNames : ~LacksCoordinates(cifdict[b])
    /\ pc = "thrown" /\ cerr = MissingCoordinates =>
          /\ LacksCoordinates(cifdict[sname])
          /\ \A b \in BlockNames :
                b >= sname /\ structs[b].kind # "absent" => structs[b].kind = "block"
    /\ \A b \in BlockNames :
          pc \in {"block", "expand", "create"} /\ b <= sname =>
              ~LacksCoordinates(cifdict[b])

\* C4 witness: readCif has thrown on a block without coordinates while a
\* block with atom sites and coordinates follows it in the document.
C4_Witness ==
    /\ pc = "thrown"
    /\ cerr = MissingCoordinates
    /\ \E b \in BlockNames :
          /\ b > sname
          /\ cifdict[b]["_atom_site_label"].type # "undefined"
          /\ ~LacksCoordinates(cifdict[b])
          /\ structs[b].kind = "block"

\* C5: when readCif returns, the keys of the result are the names of the
\* blocks with the _atom_site_label tag and every value is an Atoms
\* structure; a block without the tag is never processed, so it raises no
\* error.
C5_ResultKeys ==
    /\ pc = "returned" =>
          \A b \in BlockNames :
              IF cifdict[b]["_atom_site_label"].type # "undefined"
              THEN structs[b].kind = "atoms"
              ELSE structs[b].kind = "absent"
    /\ sname # 0 => cifdict[sname]["_atom_site_label"].type # "undefined"

\* C5 witness: readCif has returned for a document with a block with and a
\* block without the tag.
C5_Witness ==
    /\ pc = "returned"
    /\ \E b \in BlockNames : structs[b].kind = "atoms"
    /\ \E b \in BlockNames : cifdict[b]["_atom_site_label"].type = "undefined"

\* C6 as claimed: whatever the caller writes into a value an accessor
\* returned, the structure's arrays, cell and pbc stay as they were.
C6_AccessorsReturnCopies == [][op' = "mutate" => obj' = obj]_vars

\* Whether the positions of a constructor call match its elements: as many
\* positions as elements, three components each.
PositionsFit(c) ==
    /\ Len(c.positions) = Len(c.elems)
    /\ \A k \in 1..Len(c.positions) : Len(c.positions[k]) = 3

\* Whether every stored array of a structure has as many entries as the
\* structure has atoms.
ArraysFit(a) == \A name \in a.keys : Len(a.arrays[name]) = a.N

\* C7: a construction succeeds only with as many positions as elements,
\* of three components each; then length() is the number of elements and
\* every stored array has that length, also after every set_array call;
\* set_array with an array of another length throws and changes nothing,
\* with an array of that length it stores the array.
C7_ArrayLengths ==
    [][ /\ built' => PositionsFit(call')
        /\ built' => length(obj') = Len(call'.elems) /\ ArraysFit(obj')
        /\ op' = "set_array" /\ Len(sarg'.arr) # obj.N =>
              aerr' = "Invalid array size" /\ obj' = obj
        /\ op' = "set_array" /\ Len(sarg'.arr) = obj.N =>
              aerr' = "" /\ obj'.arrays[sarg'.name] = sarg'.arr ]_vars

\* C7 witness: a set_array call with an array of the wrong length has
\* thrown on a structure of two atoms that holds labels.
C7_Witness ==
    /\ built
    /\ op = "set_array"
    /\ aerr = "Invalid array size"
    /\ obj.N = 2
    /\ "labels" \in obj.keys

\* Whether row i of a stored cell is present.
RowPresent(c, i) == c # Null /\ c[i] # Null

\* C8: for every cell argument a construction accepts, pbc[i] is true
\* exactly when row i of the cell is present, the inverse cell is defined
\* exactly when pbc is all true, and a construction with scaled positions
\* succeeded only with pbc all true; the cubic cell 2 and the axis cell
\* [1, null, 1] give the cells of the specification.
C8_CellForms ==
    built =>
        /\ \A i \in 1..3 : obj.pbc[i] <=> RowPresent(obj.cell, i)
        /\ obj.inv_cell # Null <=> obj.pbc = <<TRUE, TRUE, TRUE>>
        /\ call.scaled => obj.pbc = <<TRUE, TRUE, TRUE>>
        /\ call.cell = CNum(2) =>
              obj.cell = <<<<2, 0, 0>>, <<0, 2, 0>>, <<0, 0, 2>>>>
        /\ call.cell = CArr(<<CNum(1), CNull, CNum(1)>>) =>
              /\ obj.pbc = <<TRUE, FALSE, TRUE>>
              /\ obj.cell = <<<<1, 0, 0>>, Null, <<0, 0, 1>>>>

\* C8 witness: a structure was built from a Cartesian cell with a null
\* row.
C8_Witness ==
    /\ built
    /\ call.cell = CArr(<<CArr(<<1, 1, 0>>), CNull, CArr(<<0, 1, 3>>)>>)

\* Whether an element argument is a symbol the table does not resolve.
UnknownSymbol(el) == ~el.isnum /\ \A e \in PeriodicTable : e.symbol # el.s

\* The table entry of a resolvable element argument.
TableEntry(el) ==
    CHOOSE e \in PeriodicTable : IF el.isnum THEN e.number = el.n ELSE e.symbol = el.s

\* The elements of a call with every unknown symbol replaced by carbon.
KnownElems(c) ==
    [k \in 1..Len(c.elems) |-> IF UnknownSymbol(c.elems[k]) THEN ElSym("C") ELSE c.elems[k]]

\* C9: a construction with an unknown symbol fails when tolerant is not
\* set, and no structure exists; with tolerant set it succeeds whenever it
\* would with known symbols in their place, and then an unknown symbol is
\* stored as given with the number -1 and every other element with the
\* symbol and number of the table.
C9_UnknownSymbols ==
    /\ ~call.tolerant /\ (\E k \in 1..Len(call.elems) : UnknownSymbol(call.elems[k])) =>
          ~built /\ obj = NoAtoms /\ aerr = "Non-existing element"
    /\ op = "new" /\ call.tolerant
          /\ AtomsNew(KnownElems(call), call.positions, call.cell, call.scaled, TRUE).ok =>
              built
    /\ built =>
          \A k \in 1..Len(call.elems) :
              IF UnknownSymbol(call.elems[k])
              THEN /\ obj.arrays.symbols[k] = call.elems[k].s
                   /\ obj.arrays.numbers[k] = -1
              ELSE /\ obj.arrays.symbols[k] = TableEntry(call.elems[k]).symbol
                   /\ obj.arrays.numbers[k] = TableEntry(call.elems[k]).number

\* C9 witness: a tolerant construction has built a structure of an unknown
\* symbol and an element given by its number.
C9_Witness ==
    /\ built
    /\ call.tolerant
    /\ \E k \in 1..Len(call.elems) : UnknownSymbol(call.elems[k])
    /\ \E k \in 1..Len(call.elems) : call.elems[k].isnum

\* Whether the operators of a block are identities only.
IdentityOnly(block) ==
    /\ ~_symops(block).null
    /\ \A k \in 1..Len(_symops(block).ops) : _symops(block).ops[k] = <<Identity, <<0, 0, 0>>>>

\* Whether a block has an explicit operator list of fewer than two
\* entries.
FewerThanTwo(block) ==
    LET symopvals == OrElse(block[symop_tags[1]], block[symop_tags[2]])
    IN  symopvals.type # "undefined" /\ Len(symopvals.value) < 2

\* Whether a structure holds exactly the sites of its periodic block, in
\* their order.
SitesAsGiven(a, block) ==
    LET asites == _atom_sites(block).value
        cell0 == cellparToCell(_cellpars(block))
    IN  /\ a.N = Len(asites)
        /\ \A k \in 1..a.N :
              /\ a.arrays.labels[k] = asites[k].label.v
              /\ a.arrays.symbols[k] = asites[k].type_symbol.v
              /\ a.arrays.positions[k] = SitePosition(asites[k], TRUE, cell0).p

\* C10 as claimed: a periodic block whose operators are identities only,
\* or whose explicit operator list has fewer than two entries, yields
\* exactly its sites.
C10_IdentityAddsNothing ==
    \A b \in DOMAIN structs :
        /\ structs[b].kind = "atoms"
        /\ _cellpars(cifdict[b]) # Null
        /\ IdentityOnly(cifdict[b]) \/ FewerThanTwo(cifdict[b])
        => SitesAsGiven(structs[b].atoms, cifdict[b])

\* C10 amended: with a positive symtol a periodic block whose operators
\* are identities only yields exactly its sites; a periodic block whose
\* explicit operator list has fewer than two entries does so with every
\* symtol.
C10_IdentityAddsNothingPositive ==
    \A b \in DOMAIN structs :
        /\ structs[b].kind = "atoms"
        /\ _cellpars(cifdict[b]) # Null
        /\ (symtol > 0 /\ IdentityOnly(cifdict[b])) \/ FewerThanTwo(cifdict[b])
        => SitesAsGiven(structs[b].atoms, cifdict[b])

\* C10 witness: with a positive symtol, a structure of two sites was built
\* from a block that lists two identities after its first operator.
C10_Witness ==
    /\ symtol > 0
    /\ \E b \in DOMAIN structs :
          /\ structs[b].kind = "atoms"
          /\ structs[b].atoms.N = 2
          /\ IdentityOnly(cifdict[b])
          /\ Len(_symops(cifdict[b]).ops) = 2

\* Whether the list s is the beginning of the list t.
IsPrefix(s, t) == Len(s) <= Len(t) /\ \A k \in 1..Len(s) : t[k] = s[k]

\* The image of the current site under the current operator.
Candidate == Image(symops.ops[oj], fpos[si])

\* Whether p is closer than tol to an entry of a list.
TooClose(p, list, tol) ==
    \E k \in 1..Len(list) : LengthBelow(PeriodicDistSq(p, list[k]), tol)

\* The index of the site of the current block that carries a label.
SiteOf(lab) ==
    CHOOSE s \in 1..Len(_atom_sites(cifdict[sname]).value) :
        _atom_sites(cifdict[sname]).value[s].label.v = lab

\* Whether the output lists of a finished expansion are the sites' lists
\* in site order: equal lengths, every position the site's own or one of
\* its images and carrying the site's symbol and label, the sites in input
\* order, every site present and led by its own position.
OutputInSiteOrder ==
    LET asites == _atom_sites(cifdict[sname]).value
        n == Len(allfpos)
    IN  /\ Len(allsyms) = n
        /\ Len(alllabs) = n
        /\ \A k \in 1..n :
              LET s == SiteOf(alllabs[k])
              IN  /\ allsyms[k] = SiteElem(asites[s])
                  /\ \/ allfpos[k] = fpos[s]
                     \/ \E j \in 1..Len(symops.ops) :
                           allfpos[k] = Image(symops.ops[j], fpos[s])
        /\ \A k \in 1..n : \A m \in (k + 1)..n : SiteOf(alllabs[k]) <= SiteOf(alllabs[m])
        /\ \A s \in 1..Len(fpos) :
              \E k \in 1..n :
                  /\ SiteOf(alllabs[k]) = s
                  /\ allfpos[k] = fpos[s]
                  /\ k = 1 \/ SiteOf(alllabs[k - 1]) < s

\* C11: in every step of the expansion, the accepted list of a site
\* starts with the site's own position; an operator either leaves the
\* list as it is (its image is closer than symtol to an accepted entry)
\* or appends its image at the end, and never replaces or removes an
\* entry; a finished site's list is appended to the output with the
\* site's symbol and label for every entry; the finished output has
\* symbols, labels and positions of one length, in site order.
C11_KeepEarliest ==
    [][ /\ pc' = "expand" /\ si' <= Len(fpos') => allp'[1] = fpos'[si']
        /\ pc = "expand" /\ pc' = "expand" /\ si' = si /\ oj' # oj =>
              /\ IsPrefix(allp, allp')
              /\ IF TooClose(Candidate, allp, symtol)
                 THEN allp' = allp
                 ELSE allp' = Append(allp, Candidate)
        /\ pc = "expand" /\ si' = si + 1 =>
              /\ allfpos' = allfpos \o allp
              /\ IsPrefix(allsyms, allsyms')
              /\ IsPrefix(alllabs, alllabs')
              /\ Len(allsyms') = Len(allfpos')
              /\ Len(alllabs') = Len(allfpos')
              /\ \A k \in (Len(allfpos) + 1)..Len(allfpos') :
                    allsyms'[k] = symbols[si] /\ alllabs'[k] = labels[si]
        /\ pc = "expand" /\ pc' = "create" =>
              /\ OutputInSiteOrder
              /\ symbols' = allsyms
              /\ labels' = alllabs
              /\ Len(positions') = Len(symbols')
              /\ positions' = [k \in 1..Len(allfpos) |-> VecMat(allfpos[k], cell)]
      ]_vars

\* C11 witness: the expansion of a block of two sites has finished; with
\* two operators listed, one site kept both images and the other lost one.
C11_Witness ==
    /\ pc = "create"
    /\ pbc
    /\ ~symops.null
    /\ Len(symops.ops) = 2
    /\ Len(fpos) = 2
    /\ symtol > 0
    /\ Len(positions) = 5
    /\ Len(labels) = 5

\* The orders in which a list of operators can be applied.
PermsOf(ops) ==
    {[k \in 1..Len(ops) |-> ops[f[k]]] : f \in Permutations(1..Len(ops))}

\* The set of positions kept for a site by the operators in a given order.
Kept(p0, ops, tol) == Range(ExpandSite(<<p0>>, p0, ops, 1, tol))

\* The position of a site and its images under the operators.
Candidates(p0, ops) == {p0} \cup {Image(ops[k], p0) : k \in 1..Len(ops)}

\* Whether no two different positions among a site's position and its
\* images are closer than tol.
Apart(p0, ops, tol) ==
    \A p \in Candidates(p0, ops) : \A q \in Candidates(p0, ops) :
        p # q => ~LengthBelow(PeriodicDistSq(p, q), tol)

\* Whether every operator has been applied to the current site.
SiteDone == pc = "expand" /\ si <= Len(fpos) /\ oj > Len(symops.ops)

TagLists ==
    { asite_tags,
      << "_atom_site_type_symbol", "_atom_site_label", "_atom_site_Cartn_x" >>,
      << "_atom_site_fract_y", "_atom_site_Cartn_x", "_atom_site_label",
         "_atom_site_type_symbol" >> }

\* Whether a tag of a block cannot be extracted along with a first tag:
\* it is absent, of another type, or a loop of another number of rows.
Rejected(x, first) ==
    \/ x.type = "undefined"
    \/ x.type # first.type
    \/ first.type = "loop" /\ Len(x.value) # Len(first.value)

\* Whether _extract_tags answers as claimed for a block and a tag list.
ExtractsAsClaimed(block, tags) ==
    LET r == _extract_tags(block, tags)
        first == block[tags[1]]
    IN  IF first.type = "undefined"
        THEN r.null
        ELSE /\ ~r.null
             /\ Len(r.value) = Len(tags)
             /\ \A k \in 1..Len(tags) :
                   LET x == block[tags[k]]
                   IN  /\ r.value[k].null <=> Rejected(x, first)
                       /\ ~Rejected(x, first) =>
                             /\ r.value[k].value = x.value
                             /\ x.type = "single" => Len(r.value[k].value) = 1

\* C13: for every block and tag list, _extract_tags returns null when the
\* first tag is absent; otherwise one entry per tag in the order asked,
\* null exactly for a tag that is absent, of another type than the first
\* or a loop of another number of rows, and else the tag's values (one
\* value for a single); a rejected tag leaves the other entries in place.
\* The sites readCif reads are made of the extracted columns.
C13_ExtractTags ==
    /\ \A b \in 1..Len(cifdict) : \A tags \in TagLists :
          ExtractsAsClaimed(cifdict[b], tags)
    /\ pc = "create" /\ ~(pbc /\ ~symops.null) =>
          LET block == cifdict[sname]
              first == block["_atom_site_label"]
          IN  /\ labels = first.value
              /\ symbols = [k \in 1..Len(first.value) |->
                              IF Rejected(block["_atom_site_type_symbol"], first)
                              THEN ElUndefined
                              ELSE ElSym(block["_atom_site_type_symbol"].value[k])]

\* C13 witness: readCif has read the sites of a block whose type symbol is
\* a single value next to a loop of labels and whose Cartesian columns
\* were extracted.
C13_Witness ==
    /\ pc = "create"
    /\ cifdict[sname]["_atom_site_label"].type = "loop"
    /\ cifdict[sname]["_atom_site_type_symbol"].type = "single"
    /\ symbols = <<ElUndefined>>
    /\ labels = <<"A1">>
    /\ positions = <<<<2, 0, 6>>>>

====
